---- MODULE Spec2Model ----
(***************************************************************************)
(* Partial sign vectors (sign_vectors/partial_sign_vectors.py).            *)
(*                                                                         *)
(* A PartialSignVector is a value object over three FrozenBitsets of the   *)
(* same capacity.  Every operation of the class is a pure function that    *)
(* returns a new value, so the state machine holds the operands of the     *)
(* last call (x = self, y = other, arg = the remaining arguments), the     *)
(* name of the method called (op) and what it returned or raised (res).    *)
(* Strings are sequences of one-character strings; Python lists are        *)
(* sequences; Python sets are sets.  Positions are 0-based as in the code. *)
(***************************************************************************)
EXTENDS Integers, Sequences, FiniteSets, TLC

VARIABLES x, y, arg, op, res

vars == <<x, y, arg, op, res>>

\* Largest length of the vectors and strings that are enumerated.
MaxLen == 2

(***************************************************************************)
(* Results: a call returns a value or raises an exception.                 *)
(***************************************************************************)
Ok(v) == [ok |-> TRUE, val |-> v]

Raise(e) == [ok |-> FALSE, val |-> e]

Max2(a, b) == IF a >= b THEN a ELSE b

RECURSIVE SetMax(_)
SetMax(S) == IF S = {} THEN -1
             ELSE LET e == CHOOSE e \in S : TRUE
                  IN Max2(e, SetMax(S \ {e}))

RECURSIVE Pow(_, _)
Pow(b, e) == IF e = 0 THEN 1 ELSE b * Pow(b, e - 1)

\* list(bitset): the members in ascending order.
RECURSIVE SortedList(_)
SortedList(S) == IF S = {} THEN <<>>
                 ELSE LET m == SetMax(S) IN Append(SortedList(S \ {m}), m)

(***************************************************************************)
(* sage.data_structures.bitset.FrozenBitset: a set of indices below a      *)
(* capacity of at least 1.  Binary operations on bitsets of different      *)
(* capacities give a bitset of the larger capacity; comparison looks at    *)
(* the members only.                                                       *)
(***************************************************************************)
\* FrozenBitset(iterable): the capacity is computed from the members.
FrozenBitset(S) == [cap |-> Max2(1, SetMax(S) + 1), bits |-> S]

\* FrozenBitset(iterable, capacity=n), n >= 1.
FrozenBitsetCap(S, n) == [cap |-> n, bits |-> S]

BitsetOr(a, b) == [cap |-> Max2(a.cap, b.cap), bits |-> a.bits \cup b.bits]

BitsetAnd(a, b) == [cap |-> Max2(a.cap, b.cap), bits |-> a.bits \cap b.bits]

BitsetXor(a, b) ==
    [cap |-> Max2(a.cap, b.cap),
     bits |-> (a.bits \ b.bits) \cup (b.bits \ a.bits)]

BitsetDiff(a, b) == [cap |-> Max2(a.cap, b.cap), bits |-> a.bits \ b.bits]

BitsetNot(a) == [cap |-> a.cap, bits |-> (0 .. a.cap - 1) \ a.bits]

BitsetIsSubset(a, b) == a.bits \subseteq b.bits

BitsetEq(a, b) == a.bits = b.bits

BitsetIsEmpty(a) == a.bits = {}

(***************************************************************************)
(* PartialSignVector.__init__ and the factory methods.                     *)
(***************************************************************************)
PartialSignVector(negative_support, zero_support, positive_support) ==
    [type |-> "PartialSignVector",
     negative_support |-> negative_support,
     zero_support |-> zero_support,
     positive_support |-> positive_support]

length(self) == self.negative_support.cap

\* The note of __init__: the union of the three supports should be the full
\* set (no position has an empty candidate set).  It is not checked.
WellFormed(self) ==
    (0 .. length(self) - 1) \subseteq
        (self.negative_support.bits \cup self.zero_support.bits
         \cup self.positive_support.bits)

\* FrozenBitset(..., capacity=0) raises ValueError.
from_support(negative_support, zero_support, positive_support, len) ==
    IF len <= 0 THEN Raise("ValueError")
    ELSE Ok(PartialSignVector(FrozenBitsetCap(negative_support, len),
                              FrozenBitsetCap(zero_support, len),
                              FrozenBitsetCap(positive_support, len)))

from_string(s) ==
    from_support({i - 1 : i \in {j \in 1 .. Len(s) : s[j] \in {"-", "n", "/", "*"}}},
                 {i - 1 : i \in {j \in 1 .. Len(s) : s[j] \in {"0", "n", "p", "*"}}},
                 {i - 1 : i \in {j \in 1 .. Len(s) : s[j] \in {"+", "p", "/", "*"}}},
                 Len(s))

\* iterable: a sequence of sets of signs.
from_iterable(iterable) ==
    from_support({i - 1 : i \in {j \in 1 .. Len(iterable) : -1 \in iterable[j]}},
                 {i - 1 : i \in {j \in 1 .. Len(iterable) : 0 \in iterable[j]}},
                 {i - 1 : i \in {j \in 1 .. Len(iterable) : 1 \in iterable[j]}},
                 Len(iterable))

zero(len) ==
    IF len <= 0 THEN Raise("ValueError")
    ELSE Ok(PartialSignVector(FrozenBitsetCap({}, len),
                              BitsetNot(FrozenBitsetCap({}, len)),
                              FrozenBitsetCap({}, len)))

star(len) ==
    IF len <= 0 THEN Raise("ValueError")
    ELSE Ok(PartialSignVector(BitsetNot(FrozenBitsetCap({}, len)),
                              BitsetNot(FrozenBitsetCap({}, len)),
                              BitsetNot(FrozenBitsetCap({}, len))))

(***************************************************************************)
(* Indexing and formatting.                                                *)
(***************************************************************************)
\* e % n for e < 0 <= n, as Python computes it.
PyMod(e, n) == e % n

\* __getitem__ that rejects every index with |e| >= length.
getitem_rejects_minus_length(self, e) ==
    IF e >= length(self) \/ e <= -length(self) THEN Raise("IndexError")
    ELSE LET i == IF e < 0 THEN PyMod(e, length(self)) ELSE e
         IN Ok((IF i \in self.negative_support.bits THEN <<-1>> ELSE <<>>)
               \o (IF i \in self.zero_support.bits THEN <<0>> ELSE <<>>)
               \o (IF i \in self.positive_support.bits THEN <<1>> ELSE <<>>))

\* self[e] for an integer e.
getitem(self, e) ==
    IF e >= length(self) \/ e < -length(self) THEN Raise("IndexError")
    ELSE LET i == IF e < 0 THEN PyMod(e, length(self)) ELSE e
         IN Ok((IF i \in self.negative_support.bits THEN <<-1>> ELSE <<>>)
               \o (IF i \in self.zero_support.bits THEN <<0>> ELSE <<>>)
               \o (IF i \in self.positive_support.bits THEN <<1>> ELSE <<>>))

\* self.to_string(index=e): falls off the end (None) on an empty list.
to_string_index(self, e) ==
    LET r == getitem(self, e)
    IN IF ~r.ok THEN r
       ELSE IF r.val = <<-1>> THEN Ok("-")
       ELSE IF r.val = <<0>> THEN Ok("0")
       ELSE IF r.val = <<1>> THEN Ok("+")
       ELSE IF r.val = <<-1, 0>> THEN Ok("n")
       ELSE IF r.val = <<-1, 1>> THEN Ok("/")
       ELSE IF r.val = <<0, 1>> THEN Ok("p")
       ELSE IF r.val = <<-1, 0, 1>> THEN Ok("*")
       ELSE Ok("None")

\* self.to_string(): "".join raises TypeError on a None item.
to_string(self) ==
    LET n == length(self)
        parts == [i \in 1 .. n |-> to_string_index(self, i - 1)]
    IN IF \E i \in 1 .. n : ~parts[i].ok
       THEN Raise("IndexError")
       ELSE IF \E i \in 1 .. n : parts[i].val = "None"
       THEN Raise("TypeError")
       ELSE Ok([i \in 1 .. n |-> parts[i].val])

(***************************************************************************)
(* Support queries.                                                        *)
(***************************************************************************)
determined_negative_support(self) ==
    BitsetDiff(self.negative_support,
               BitsetOr(self.positive_support, self.zero_support))

determined_zero_support(self) ==
    BitsetDiff(self.zero_support,
               BitsetOr(self.negative_support, self.positive_support))

determined_positive_support(self) ==
    BitsetDiff(self.positive_support,
               BitsetOr(self.negative_support, self.zero_support))

determined_support(self) ==
    BitsetOr(BitsetOr(determined_negative_support(self),
                      determined_zero_support(self)),
             determined_positive_support(self))

undetermined_support(self) ==
    BitsetAnd(BitsetAnd(self.positive_support, self.negative_support),
              self.zero_support)

\* cardinality with the undetermined positions counted as two-valued.
cardinality_undetermined_as_two(self) ==
    Pow(2, length(self) - Cardinality(determined_support(self).bits))

cardinality(self) ==
    Pow(2, length(self) - Cardinality(determined_support(self).bits)
                        - Cardinality(undetermined_support(self).bits))
    * Pow(3, Cardinality(undetermined_support(self).bits))

is_sign_vector(self) == length(self) = Cardinality(determined_support(self).bits)

(***************************************************************************)
(* Transformations.  An index list is given as the set of its members:     *)
(* each method turns it into a FrozenBitset before anything else.          *)
(***************************************************************************)
flip_signs(self, indices) ==
    LET ind == BitsetAnd(FrozenBitset(indices),
                         BitsetOr(self.positive_support, self.negative_support))
    IN PartialSignVector(BitsetXor(self.negative_support, ind),
                         self.zero_support,
                         BitsetXor(self.positive_support, ind))

\* set_sign that adds the selected positions to the supports of the sign
\* and never discards them from the others.
set_sign_never_discards(self, indices, sign) ==
    LET ind == FrozenBitset(indices)
        put(support, on) == IF on THEN BitsetOr(support, ind) ELSE support
        elems == {sign.val[i] : i \in 1 .. Len(sign.val)}
    IN IF sign.kind = "str"
       THEN PartialSignVector(
                put(self.negative_support, sign.val \in {"-", "n", "/", "*"}),
                put(self.zero_support, sign.val \in {"0", "n", "p", "*"}),
                put(self.positive_support, sign.val \in {"+", "p", "/", "*"}))
       ELSE PartialSignVector(put(self.negative_support, -1 \in elems),
                              put(self.zero_support, 0 \in elems),
                              put(self.positive_support, 1 \in elems))

\* sign: [kind |-> "str", val |-> a code] or [kind |-> "list", val |-> a
\* sequence of integers]; any other kind falls off the end (None).
set_sign(self, indices, sign) ==
    LET ind == FrozenBitset(indices)
        put(support, on) == IF on THEN BitsetOr(support, ind)
                            ELSE BitsetDiff(support, ind)
        elems == {sign.val[i] : i \in 1 .. Len(sign.val)}
    IN IF sign.kind = "str"
       THEN PartialSignVector(
                put(self.negative_support, sign.val \in {"-", "n", "/", "*"}),
                put(self.zero_support, sign.val \in {"0", "n", "p", "*"}),
                put(self.positive_support, sign.val \in {"+", "p", "/", "*"}))
       ELSE IF sign.kind = "list"
       THEN PartialSignVector(put(self.negative_support, -1 \in elems),
                              put(self.zero_support, 0 \in elems),
                              put(self.positive_support, 1 \in elems))
       ELSE [type |-> "None"]

neg(self) ==
    PartialSignVector(self.positive_support, self.zero_support,
                      self.negative_support)

\* The list [self[i] for i in ~FrozenBitset(indices, capacity=length)] is
\* handed to from_iterable; with no position left its length is 0.
delete_components(self, indices) ==
    LET kept == SortedList(BitsetNot(FrozenBitsetCap(indices, length(self))).bits)
    IN from_iterable([k \in 1 .. Len(kept) |->
                         {getitem(self, kept[k]).val[j] :
                              j \in 1 .. Len(getitem(self, kept[k]).val)}])

(***************************************************************************)
(* The total sign vectors of sign_vectors/sign_vectors.py: two disjoint    *)
(* supports, the zero support being the complement of their union.         *)
(***************************************************************************)
SignVector(positive_support, negative_support) ==
    [type |-> "SignVector",
     positive_support |-> positive_support,
     negative_support |-> negative_support,
     zero_support |-> BitsetNot(BitsetOr(positive_support, negative_support))]

\* The exception object is returned, not raised.
to_sign_vector(self) ==
    IF is_sign_vector(self)
    THEN SignVector(self.positive_support, self.negative_support)
    ELSE [type |-> "Exception", val |-> "not a sign vector", of |-> self]

(***************************************************************************)
(* unpack.                                                                 *)
(***************************************************************************)
range(n) == [i \in 1 .. n |-> i - 1]

SeqElems(s) == {s[i] : i \in 1 .. Len(s)}

\* The loop "for e in indices" over the set R of vectors built so far;
\* psv[e] raises IndexError for an index out of range.
RECURSIVE unpack_loop(_, _)
unpack_loop(R, indices) ==
    IF indices = <<>> THEN Ok(R)
    ELSE LET e == Head(indices)
         IN IF \E psv \in R : ~getitem(psv, e).ok THEN Raise("IndexError")
            ELSE unpack_loop(
                     UNION {{set_sign(psv, {e}, [kind |-> "list", val |-> <<s>>]) :
                                 s \in SeqElems(getitem(psv, e).val)} : psv \in R},
                     Tail(indices))

\* unpack that also casts when an explicit list names every position.
unpack_casts_full_list(self, indices) ==
    LET ind == IF indices.kind = "None" THEN range(length(self))
               ELSE IF indices.kind = "int" THEN <<indices.val>>
               ELSE indices.val
        r == unpack_loop({self}, ind)
    IN IF ~r.ok THEN r
       ELSE IF {ind[i] : i \in 1 .. Len(ind)} = 0 .. length(self) - 1
       THEN Ok({to_sign_vector(sv) : sv \in r.val})
       ELSE r

\* unpack whose default leaves the last position out: range(len(self) - 1).
unpack_short_range(self, indices) ==
    LET ind == IF indices.kind = "None" THEN range(length(self) - 1)
               ELSE IF indices.kind = "int" THEN <<indices.val>>
               ELSE indices.val
        r == unpack_loop({self}, ind)
    IN IF ~r.ok THEN r
       ELSE IF indices.kind = "None" THEN Ok({to_sign_vector(sv) : sv \in r.val})
       ELSE r

\* indices: [kind |-> "None"], [kind |-> "int", val |-> i] or
\* [kind |-> "list", val |-> a sequence of indices].
unpack(self, indices) ==
    LET cast_sv == indices.kind = "None"
        ind == IF indices.kind = "None" THEN range(length(self))
               ELSE IF indices.kind = "int" THEN <<indices.val>>
               ELSE indices.val
        r == unpack_loop({self}, ind)
    IN IF ~r.ok THEN r
       ELSE IF cast_sv THEN Ok({to_sign_vector(sv) : sv \in r.val})
       ELSE r

(***************************************************************************)
(* Binary relations.  other is a PartialSignVector, a SignVector or the    *)
(* scalar [type |-> "int", val |-> n].                                      *)
(***************************************************************************)
\* _connecting_elements that reads the plain supports of a partial other.
_connecting_elements_plain_supports(self, other) ==
    BitsetOr(BitsetAnd(determined_positive_support(self), other.positive_support),
             BitsetAnd(determined_negative_support(self), other.negative_support))

_connecting_elements(self, other) ==
    IF other.type = "SignVector"
    THEN BitsetOr(BitsetAnd(determined_positive_support(self), other.positive_support),
                  BitsetAnd(determined_negative_support(self), other.negative_support))
    ELSE BitsetOr(BitsetAnd(determined_positive_support(self),
                            determined_positive_support(other)),
                  BitsetAnd(determined_negative_support(self),
                            determined_negative_support(other)))

_separating_elements(self, other) ==
    IF other.type = "SignVector"
    THEN BitsetOr(BitsetAnd(determined_positive_support(self), other.negative_support),
                  BitsetAnd(determined_negative_support(self), other.positive_support))
    ELSE BitsetOr(BitsetAnd(determined_positive_support(self),
                            determined_negative_support(other)),
                  BitsetAnd(determined_negative_support(self),
                            determined_positive_support(other)))

connecting_elements(self, other) == SortedList(_connecting_elements(self, other).bits)

separating_elements(self, other) == SortedList(_separating_elements(self, other).bits)

\* compose that keeps the zero support of self.
compose_keeps_zero(self, other) ==
    PartialSignVector(
        BitsetOr(self.negative_support,
                 BitsetAnd(other.negative_support, self.zero_support)),
        self.zero_support,
        BitsetOr(self.positive_support,
                 BitsetAnd(other.positive_support, self.zero_support)))

\* compose with the roles of self and other exchanged.
compose_other_dominant(self, other) ==
    PartialSignVector(
        BitsetOr(other.negative_support,
                 BitsetAnd(self.negative_support, other.zero_support)),
        BitsetAnd(self.zero_support, other.zero_support),
        BitsetOr(other.positive_support,
                 BitsetAnd(self.positive_support, other.zero_support)))

compose(self, other) ==
    PartialSignVector(
        BitsetOr(self.negative_support,
                 BitsetAnd(other.negative_support, self.zero_support)),
        BitsetAnd(self.zero_support, other.zero_support),
        BitsetOr(self.positive_support,
                 BitsetAnd(other.positive_support, self.zero_support)))

\* is_orthogonal_to without the shortcut for covering zero supports.
is_orthogonal_to_without_shortcut(self, other) ==
    ~(\/ BitsetIsEmpty(_separating_elements(self, other))
      \/ BitsetIsEmpty(_connecting_elements(self, other)))

\* is_orthogonal_to that is content with a separating or a connecting element.
is_orthogonal_to_either_element(self, other) ==
    LET other_zero == IF other.type = "SignVector" THEN other.zero_support
                      ELSE determined_zero_support(other)
    IN IF BitsetIsEmpty(BitsetNot(BitsetOr(determined_zero_support(self), other_zero)))
       THEN TRUE
       ELSE ~(/\ BitsetIsEmpty(_separating_elements(self, other))
              /\ BitsetIsEmpty(_connecting_elements(self, other)))

is_orthogonal_to(self, other) ==
    LET other_zero == IF other.type = "SignVector" THEN other.zero_support
                      ELSE determined_zero_support(other)
    IN IF BitsetIsEmpty(BitsetNot(BitsetOr(determined_zero_support(self), other_zero)))
       THEN TRUE
       ELSE ~(\/ BitsetIsEmpty(_separating_elements(self, other))
              \/ BitsetIsEmpty(_connecting_elements(self, other)))

\* issubset that does not compare the zero supports.
issubset_without_zero(self, other) ==
    /\ BitsetIsSubset(self.positive_support, other.positive_support)
    /\ BitsetIsSubset(self.negative_support, other.negative_support)

\* issubset that does not compare the negative supports.
issubset_without_negative(self, other) ==
    /\ BitsetIsSubset(self.positive_support, other.positive_support)
    /\ BitsetIsSubset(self.zero_support, other.zero_support)

issubset(self, other) ==
    /\ BitsetIsSubset(self.positive_support, other.positive_support)
    /\ BitsetIsSubset(self.negative_support, other.negative_support)
    /\ BitsetIsSubset(self.zero_support, other.zero_support)

__eq__(self, other) ==
    IF other.type \in {"PartialSignVector", "SignVector"}
    THEN /\ BitsetEq(self.negative_support, other.negative_support)
         /\ BitsetEq(self.positive_support, other.positive_support)
         /\ BitsetEq(self.zero_support, other.zero_support)
    ELSE IF other.val = 0
    THEN BitsetIsEmpty(BitsetOr(self.positive_support, self.negative_support))
    ELSE FALSE

\* != is the negation of __eq__.
__ne__(self, other) == ~__eq__(self, other)

__le__(self, other) ==
    IF other.type = "PartialSignVector" THEN issubset(self, other)
    ELSE IF other.type = "int" /\ other.val = 0
    THEN __eq__(self, [type |-> "int", val |-> 0])
    ELSE FALSE

__lt__(self, other) == __ne__(self, other) /\ __le__(self, other)

\* __ge__ that answers self == 0 for the scalar 0.
__ge__zero_as_eq(self, other) ==
    IF other.type = "PartialSignVector" THEN issubset(other, self)
    ELSE IF other.type = "int" /\ other.val = 0
    THEN BitsetIsEmpty(BitsetOr(self.positive_support, self.negative_support))
    ELSE FALSE

\* all(0 in a for a in self) iterates self[0], self[1], ... up to IndexError.
__ge__(self, other) ==
    IF other.type = "PartialSignVector" THEN issubset(other, self)
    ELSE IF other.type = "int" /\ other.val = 0
    THEN \A e \in 0 .. length(self) - 1 : 0 \in SeqElems(getitem(self, e).val)
    ELSE FALSE

__gt__(self, other) == __ne__(self, other) /\ __ge__(self, other)

(***************************************************************************)
(* Inputs.                                                                 *)
(***************************************************************************)
Alphabet == {"-", "0", "+", "n", "p", "/", "*"}

Strings(lo, hi) == UNION {[1 .. n -> Alphabet] : n \in lo .. hi}

\* The vectors of the doctests.
DocStrings ==
    {<<"p", "*", "0">>, <<"-", "-", "0">>, <<"/", "/", "0">>,
     <<"-", "0", "p", "n", "0">>, <<"0", "n", "/", "+", "0">>,
     <<"-", "n", "/", "/", "0">>, <<"-", "n", "/", "+", "0">>,
     <<"n", "*", "0", "-", "+">>, <<"*", "*", "0", "+", "+">>,
     <<"0", "0", "+", "0", "0">>, <<"0", "*", "+", "+", "0">>,
     <<"0", "+", "*", "n">>, <<"-", "n", "+", "*", "/">>,
     <<"-", "+", "p", "0", "+">>, <<"+", "+", "n", "0", "+">>,
     <<"+", "*", "-", "p", "-">>, <<"+", "-", "-", "+", "+">>,
     <<"+", "-", "+", "+", "+">>, <<"-", "+", "0", "0", "+">>,
     <<"-", "/", "p", "0", "+">>, <<"-", "+", "*", "*", "0">>,
     <<"p", "n", "+", "-", "*", "/">>, <<"n", "p", "-", "+", "*", "/">>,
     <<"-", "+", "+", "0", "+">>, <<"+", "*", "0", "p", "-">>,
     <<"0", "0", "0">>, <<"0", "0", "n", "n">>, <<"0", "0", "-", "-">>}

InputStrings == Strings(1, MaxLen) \cup DocStrings

Inputs == {from_string(s).val : s \in InputStrings}

\* The operands other of the length of self: partial sign vectors, and the
\* total sign vectors as SignVector objects.
Others(self) == {v \in Inputs : length(v) = length(self)}

TotalOthers(self) == {to_sign_vector(v) : v \in {w \in Others(self) : is_sign_vector(w)}}

Indices(self) == SUBSET (0 .. length(self) - 1)

NoneArg == [kind |-> "None"]

Init ==
    /\ x \in Inputs
    /\ y = x
    /\ arg = <<>>
    /\ op = "init"
    /\ res = Ok(<<>>)

(***************************************************************************)
(* Actions: one per method call on self = x; Return ends the call.         *)
(***************************************************************************)
Idle == op = "init"

Call(name, a, r) ==
    /\ op' = name
    /\ arg' = a
    /\ res' = r
    /\ UNCHANGED x

Return ==
    /\ op # "init"
    /\ op' = "init"
    /\ arg' = <<>>
    /\ res' = Ok(<<>>)
    /\ y' = x
    /\ UNCHANGED x

\* from_string(s).to_string()
FromStringToString ==
    /\ Idle
    /\ \E s \in Strings(0, MaxLen) \cup DocStrings :
        /\ Call("from_string.to_string", s,
                LET v == from_string(s) IN IF v.ok THEN to_string(v.val) ELSE v)
        /\ UNCHANGED y

\* from_string(x.to_string())
ToStringFromString ==
    /\ Idle
    /\ Call("to_string.from_string", <<>>,
            LET s == to_string(x) IN IF s.ok THEN from_string(s.val) ELSE s)
    /\ UNCHANGED y

\* x[i]
GetItem ==
    /\ Idle
    /\ \E i \in -(length(x) + 2) .. (length(x) + 2) :
        /\ Call("getitem", i, getitem(x, i))
        /\ UNCHANGED y

\* x.cardinality()
CardinalityCall ==
    /\ Idle
    /\ Call("cardinality", <<>>, Ok(cardinality(x)))
    /\ UNCHANGED y

\* x.unpack()
Unpack ==
    /\ Idle
    /\ Call("unpack", NoneArg, unpack(x, NoneArg))
    /\ UNCHANGED y

\* x.flip_signs(I)
FlipSigns ==
    /\ Idle
    /\ \E I \in Indices(x) :
        /\ Call("flip_signs", I, Ok(flip_signs(x, I)))
        /\ UNCHANGED y

\* x.flip_signs(I).flip_signs(I)
FlipSignsTwice ==
    /\ Idle
    /\ \E I \in Indices(x) :
        /\ Call("flip_signs.flip_signs", I, Ok(flip_signs(flip_signs(x, I), I)))
        /\ UNCHANGED y

\* -x
Neg ==
    /\ Idle
    /\ Call("neg", <<>>, Ok(neg(x)))
    /\ UNCHANGED y

Next ==
    \/ FromStringToString
    \/ ToStringFromString
    \/ GetItem
    \/ CardinalityCall
    \/ Unpack
    \/ FlipSigns
    \/ FlipSignsTwice
    \/ Neg
    \/ Return

Spec == Init /\ [][Next]_vars

(***************************************************************************)
(* Calls with a second operand.                                            *)
(***************************************************************************)
Binary(name, other, r) ==
    /\ Call(name, <<>>, r)
    /\ y' = other

\* x.compose(y)
Compose == Idle /\ \E o \in Others(x) : Binary("compose", o, Ok(compose(x, o)))

NextCompose == Compose \/ Return

SpecCompose == Init /\ [][NextCompose]_vars

\* x.connecting_elements(y)
ConnectingElements ==
    /\ Idle
    /\ \E o \in Others(x) \cup TotalOthers(x) :
        Binary("connecting_elements", o, Ok(connecting_elements(x, o)))

\* x.separating_elements(y)
SeparatingElements ==
    /\ Idle
    /\ \E o \in Others(x) \cup TotalOthers(x) :
        Binary("separating_elements", o, Ok(separating_elements(x, o)))

\* x.is_orthogonal_to(y)
IsOrthogonalTo ==
    /\ Idle
    /\ \E o \in Others(x) \cup TotalOthers(x) :
        Binary("is_orthogonal_to", o, Ok(is_orthogonal_to(x, o)))

NextElements == ConnectingElements \/ SeparatingElements \/ IsOrthogonalTo \/ Return

SpecElements == Init /\ [][NextElements]_vars

\* x.issubset(y), x == y, x <= y, x < y, x >= y, x > y
Issubset == Idle /\ \E o \in Others(x) : Binary("issubset", o, Ok(issubset(x, o)))

Eq == Idle /\ \E o \in Others(x) : Binary("eq", o, Ok(__eq__(x, o)))

Le == Idle /\ \E o \in Others(x) : Binary("le", o, Ok(__le__(x, o)))

Lt == Idle /\ \E o \in Others(x) : Binary("lt", o, Ok(__lt__(x, o)))

Ge == Idle /\ \E o \in Others(x) : Binary("ge", o, Ok(__ge__(x, o)))

Gt == Idle /\ \E o \in Others(x) : Binary("gt", o, Ok(__gt__(x, o)))

NextOrder == Issubset \/ Eq \/ Le \/ Lt \/ Ge \/ Gt \/ Return

SpecOrder == Init /\ [][NextOrder]_vars

(***************************************************************************)
(* Calls that build new vectors from x.                                    *)
(***************************************************************************)
\* The sign arguments of set_sign: the seven codes, and lists of integers.
SignCodes == {[kind |-> "str", val |-> c] : c \in Alphabet}

SignListArgs ==
    {[kind |-> "list", val |-> l] :
         l \in {<<-1>>, <<0>>, <<1>>, <<-1, 0>>, <<-1, 1>>, <<0, 1>>, <<-1, 0, 1>>,
                <<1, -1>>, <<1, 0, -1>>, <<0, 0>>}}

\* Index lists for unpack: the lists of at most MaxLen positions.
IndexLists(self) == UNION {[1 .. n -> 0 .. length(self) - 1] : n \in 0 .. MaxLen}

\* x.to_sign_vector()
ToSignVector ==
    /\ Idle
    /\ Call("to_sign_vector", <<>>, Ok(to_sign_vector(x)))
    /\ UNCHANGED y

\* x.set_sign(I, sign) with a string code
SetSignStr ==
    /\ Idle
    /\ \E I \in Indices(x), s \in SignCodes :
        /\ Call("set_sign_str", [indices |-> I, sign |-> s], Ok(set_sign(x, I, s)))
        /\ UNCHANGED y

\* x.set_sign(I, sign) with a list of integers
SetSignList ==
    /\ Idle
    /\ \E I \in Indices(x), s \in SignListArgs :
        /\ Call("set_sign_list", [indices |-> I, sign |-> s], Ok(set_sign(x, I, s)))
        /\ UNCHANGED y

\* x.delete_components(I)
DeleteComponents ==
    /\ Idle
    /\ \E I \in Indices(x) :
        /\ Call("delete_components", I, delete_components(x, I))
        /\ UNCHANGED y

\* x.unpack(indices) with a list of indices
UnpackList ==
    /\ Idle
    /\ \E l \in IndexLists(x) :
        /\ Call("unpack_indices", [kind |-> "list", val |-> l],
                unpack(x, [kind |-> "list", val |-> l]))
        /\ UNCHANGED y

\* x.unpack(i) with one integer index
UnpackInt ==
    /\ Idle
    /\ \E i \in 0 .. length(x) - 1 :
        /\ Call("unpack_indices", [kind |-> "int", val |-> i],
                unpack(x, [kind |-> "int", val |-> i]))
        /\ UNCHANGED y

NextTransform ==
    \/ ToSignVector
    \/ SetSignStr
    \/ SetSignList
    \/ DeleteComponents
    \/ UnpackList
    \/ UnpackInt
    \/ Return

SpecTransform == Init /\ [][NextTransform]_vars

(***************************************************************************)
(* Comparisons of x with the scalar 0.                                     *)
(***************************************************************************)
Scalar0 == [type |-> "int", val |-> 0]

EqZero == Idle /\ Binary("eq0", Scalar0, Ok(__eq__(x, Scalar0)))

NeZero == Idle /\ Binary("ne0", Scalar0, Ok(__ne__(x, Scalar0)))

LeZero == Idle /\ Binary("le0", Scalar0, Ok(__le__(x, Scalar0)))

LtZero == Idle /\ Binary("lt0", Scalar0, Ok(__lt__(x, Scalar0)))

GeZero == Idle /\ Binary("ge0", Scalar0, Ok(__ge__(x, Scalar0)))

GtZero == Idle /\ Binary("gt0", Scalar0, Ok(__gt__(x, Scalar0)))

NextZero == EqZero \/ NeZero \/ LeZero \/ LtZero \/ GeZero \/ GtZero \/ Return

SpecZero == Init /\ [][NextZero]_vars

(***************************************************************************)
(* Sequences of calls: the value a call returns becomes the next self.     *)
(***************************************************************************)
\* The well-formed vectors the constructors build.
Built ==
    {from_string(s).val : s \in Strings(1, MaxLen)}
        \cup {zero(n).val : n \in 1 .. MaxLen}
        \cup {star(n).val : n \in 1 .. MaxLen}
        \cup {from_iterable(l).val :
                  l \in UNION {[1 .. n -> (SUBSET {-1, 0, 1}) \ {{}}] : n \in 1 .. MaxLen}}

InitChain ==
    /\ x \in Built
    /\ y = x
    /\ arg = <<>>
    /\ op = "init"
    /\ res = Ok(<<>>)

\* x = x.compose(y), x = x.flip_signs(I), x = x.set_sign(I, s),
\* x = x.delete_components(I), x = -x
Take ==
    /\ op \in {"compose", "flip_signs", "set_sign_str", "set_sign_list",
               "delete_components", "neg"}
    /\ res.ok
    /\ x' = res.val
    /\ y' = x'
    /\ op' = "init"
    /\ arg' = <<>>
    /\ res' = Ok(<<>>)

\* for x in x.unpack(indices)
TakeMember ==
    /\ op \in {"unpack", "unpack_indices"}
    /\ res.ok
    /\ x' \in res.val
    /\ y' = x'
    /\ op' = "init"
    /\ arg' = <<>>
    /\ res' = Ok(<<>>)

NextChain ==
    \/ Compose
    \/ FlipSigns
    \/ SetSignStr
    \/ SetSignList
    \/ DeleteComponents
    \/ Neg
    \/ Unpack
    \/ UnpackList
    \/ UnpackInt
    \/ Take
    \/ TakeMember
    \/ Return

SpecChain == InitChain /\ [][NextChain]_vars

(***************************************************************************)
(* Properties.                                                             *)
(***************************************************************************)
\* The vector written as the string s.
V(s) == from_string(s).val

\* The set of signs a vector admits at position e.
SignsAt(v, e) ==
    (IF e \in v.negative_support.bits THEN {-1} ELSE {})
    \cup (IF e \in v.zero_support.bits THEN {0} ELSE {})
    \cup (IF e \in v.positive_support.bits THEN {1} ELSE {})

Positions(v) == 0 .. length(v) - 1

\* C1: String round trip: for every string s over the 7-symbol alphabet, of
\* any length including 0, from_string(s).to_string() == s; and for every
\* well-formed x, from_string(x.to_string()) == x.
C1_StringRoundTrip ==
    /\ op = "from_string.to_string" => res.ok /\ res.val = arg
    /\ (op = "to_string.from_string" /\ WellFormed(x)) => res.ok /\ res.val = x

\* The round trip on the strings of length at least 1.
C1_NonEmptyRoundTrip ==
    /\ (op = "from_string.to_string" /\ Len(arg) >= 1) => res.ok /\ res.val = arg
    /\ (op = "from_string.to_string" /\ Len(arg) = 0) =>
           ~res.ok /\ res.val = "ValueError"
    /\ (op = "to_string.from_string" /\ WellFormed(x)) => res.ok /\ res.val = x

\* C2: for every partial sign vector x (every position admits a sign),
\* cardinality(x) = 2^(length - |determined| - |undetermined|) *
\* 3^|undetermined| is the number of elements of the set x.unpack() returns.
C2_CardinalityIsUnpackSize ==
    /\ (op = "unpack" /\ WellFormed(x)) =>
           res.ok /\ Cardinality(res.val) = cardinality(x)
    /\ (op = "cardinality" /\ WellFormed(x)) =>
           LET two == {e \in Positions(x) : Cardinality(SignsAt(x, e)) = 2}
               three == {e \in Positions(x) : Cardinality(SignsAt(x, e)) = 3}
           IN res.val = Pow(2, Cardinality(two)) * Pow(3, Cardinality(three))

C2_Witness ==
    /\ op = "unpack"
    /\ x = V(<<"-", "n", "+", "*", "/">>)
    /\ res.ok
    /\ Cardinality(res.val) = 12

\* The total sign vectors t of the length of x with t[i] admissible in x at
\* every position i.
TotalsOf(v) ==
    LET n == length(v)
        T == {t \in [Positions(v) -> {-1, 0, 1}] :
                 \A i \in Positions(v) : t[i] \in SignsAt(v, i)}
    IN {SignVector(FrozenBitsetCap({i \in Positions(v) : t[i] = 1}, n),
                   FrozenBitsetCap({i \in Positions(v) : t[i] = -1}, n)) : t \in T}

\* C3: for every well-formed x, x.unpack() is exactly the set of the total
\* sign vectors t of the same length with t[i] in x[i] at every position i:
\* every vector is fully determined before the cast, none is missing and
\* none is extra.
C3_UnpackIsExact ==
    (op = "unpack" /\ WellFormed(x)) =>
        /\ res.ok
        /\ res.val = TotalsOf(x)
        /\ \A t \in res.val : t.type = "SignVector"
        /\ LET r == unpack_loop({x}, range(length(x)))
           IN r.ok /\ \A psv \in r.val : is_sign_vector(psv)

C3_Witness ==
    /\ op = "unpack"
    /\ x = V(<<"p", "*", "0">>)
    /\ res.ok
    /\ res.val = {to_sign_vector(V(s)) :
                     s \in {<<"0", "0", "0">>, <<"+", "-", "0">>, <<"0", "+", "0">>,
                            <<"+", "+", "0">>, <<"0", "-", "0">>, <<"+", "0", "0">>}}

\* C4: issubset is a partial order on the partial sign vectors of one
\* length: reflexive, antisymmetric (x.issubset(y) and y.issubset(x) iff
\* x == y) and transitive; <= is issubset, >= its converse, < and > their
\* strict versions.
C4_IssubsetPartialOrder ==
    /\ (op = "issubset" /\ y = x) => res.val
    /\ op = "issubset" =>
           /\ (res.val /\ issubset(y, x)) <=> __eq__(x, y)
           /\ __eq__(x, y) <=> (x = y)
           /\ res.val = (\A e \in Positions(x) : SignsAt(x, e) \subseteq SignsAt(y, e))
           /\ res.val => \A z \in Others(y) : issubset(y, z) => issubset(x, z)
    /\ op = "eq" => res.val = (x = y)
    /\ op = "le" => res.val = issubset(x, y)
    /\ op = "ge" => res.val = issubset(y, x)
    /\ op = "lt" => res.val = (issubset(x, y) /\ x # y)
    /\ op = "gt" => res.val = (issubset(y, x) /\ x # y)
    /\ (x = V(<<"-", "+", "0", "0", "+">>) /\ y = V(<<"-", "/", "p", "0", "+">>)) =>
           /\ op = "issubset" => res.val
           /\ op = "lt" => res.val
    /\ (x = V(<<"-", "/", "p", "0", "+">>) /\ y = V(<<"-", "+", "*", "*", "0">>)) =>
           (op = "issubset" => ~res.val)
    /\ (x = V(<<"-", "+", "0", "0", "+">>) /\ y = V(<<"-", "+", "*", "*", "0">>)) =>
           (op = "le" => ~res.val)

\* x < y holds for two different vectors of the doctest.
C4_Witness ==
    /\ op = "lt"
    /\ x = V(<<"-", "+", "0", "0", "+">>)
    /\ y = V(<<"-", "/", "p", "0", "+">>)
    /\ res.val

\* C5: compose(self, other) on operands of one length has negative =
\* self.negative | (other.negative & self.zero), zero = self.zero &
\* other.zero, positive = self.positive | (other.positive & self.zero); so
\* where self does not admit 0 the result has the candidates of self, where
\* self is determined zero it has those of other, and compose is not
\* commutative: "p*0" o "--0" = "//0", "--0" o "p*0" = "--0",
\* "-0pn0" o "0n/+0" = "-n//0".
C5_ComposeFormula ==
    op = "compose" =>
        /\ res.ok
        /\ length(res.val) = length(x)
        /\ res.val.negative_support.bits =
               x.negative_support.bits
               \cup (y.negative_support.bits \cap x.zero_support.bits)
        /\ res.val.zero_support.bits = x.zero_support.bits \cap y.zero_support.bits
        /\ res.val.positive_support.bits =
               x.positive_support.bits
               \cup (y.positive_support.bits \cap x.zero_support.bits)
        /\ \A e \in Positions(x) :
               /\ 0 \notin SignsAt(x, e) => SignsAt(res.val, e) = SignsAt(x, e)
               /\ SignsAt(x, e) = {0} => SignsAt(res.val, e) = SignsAt(y, e)
        /\ (x = V(<<"p", "*", "0">>) /\ y = V(<<"-", "-", "0">>)) =>
               res.val = V(<<"/", "/", "0">>) /\ compose(y, x) = V(<<"-", "-", "0">>)
        /\ (x = V(<<"-", "-", "0">>) /\ y = V(<<"p", "*", "0">>)) =>
               res.val = V(<<"-", "-", "0">>)
        /\ (x = V(<<"-", "0", "p", "n", "0">>) /\ y = V(<<"0", "n", "/", "+", "0">>)) =>
               res.val = V(<<"-", "n", "/", "/", "0">>)

C5_Witness ==
    /\ op = "compose"
    /\ x = V(<<"-", "0", "p", "n", "0">>)
    /\ y = V(<<"0", "n", "/", "+", "0">>)
    /\ res.val = V(<<"-", "n", "/", "/", "0">>)

\* C6: flip_signs is an involution: for every x and every set I of in-range
\* indices, x.flip_signs(I).flip_signs(I) == x, also at the positions whose
\* candidate set is '/' or '*'.
C6_FlipSignsInvolution ==
    op = "flip_signs.flip_signs" => res.ok /\ __eq__(res.val, x)

\* C7: flip_signs(indices) multiplies the selected components by -1: at a
\* position of indices the memberships in the negative and the positive
\* support are swapped, the zero support is unchanged, the other positions
\* are unchanged, and flip_signs over all positions equals -x.
C7_FlipSignsNegates ==
    op = "flip_signs" =>
        /\ res.ok
        /\ length(res.val) = length(x)
        /\ \A e \in Positions(x) :
               IF e \in arg
               THEN /\ -1 \in SignsAt(res.val, e) <=> 1 \in SignsAt(x, e)
                    /\ 1 \in SignsAt(res.val, e) <=> -1 \in SignsAt(x, e)
                    /\ 0 \in SignsAt(res.val, e) <=> 0 \in SignsAt(x, e)
               ELSE SignsAt(res.val, e) = SignsAt(x, e)
        /\ arg = Positions(x) => __eq__(res.val, neg(x))

\* What flip_signs does: a selected position that admits exactly one of -
\* and + has the two swapped; one that admits both loses both ('/' is left
\* with no candidate, '*' becomes '0'), and a second flip changes nothing.
FlipSignsEffect ==
    /\ op = "flip_signs" =>
           \A e \in Positions(x) :
               LET s == SignsAt(x, e)
                   r == SignsAt(res.val, e)
               IN IF e \notin arg THEN r = s
                  ELSE IF {-1, 1} \subseteq s THEN r = s \ {-1, 1}
                  ELSE r = {-k : k \in s}
    /\ (op = "flip_signs" /\ x = V(<<"-", "+", "p", "0", "+">>) /\ arg = {0, 2, 3}) =>
           res.val = V(<<"+", "+", "n", "0", "+">>)
    /\ op = "flip_signs.flip_signs" =>
           (__eq__(res.val, x) <=>
                \A e \in arg : ~({-1, 1} \subseteq SignsAt(x, e)))

IsAscendingListOf(l, S) ==
    /\ SeqElems(l) = S
    /\ \A i, j \in 1 .. Len(l) : i < j => l[i] < l[j]

C9_OrthogonalRule ==
    (op = "is_orthogonal_to" /\ y.type = "PartialSignVector") =>
        /\ res.ok
        /\ res.val =
               IF \A e \in Positions(x) : SignsAt(x, e) = {0} \/ SignsAt(y, e) = {0}
               THEN TRUE
               ELSE /\ separating_elements(x, y) # <<>>
                    /\ connecting_elements(x, y) # <<>>
        /\ x = V(<<"n", "*", "0", "-", "+">>) =>
               /\ y = V(<<"*", "*", "0", "+", "+">>) => res.val
               /\ y = V(<<"0", "0", "+", "0", "0">>) => res.val
               /\ y = V(<<"0", "*", "+", "+", "0">>) => ~res.val
               /\ y = x => ~res.val

\* The shortcut decides: no separating and no connecting element, yet True.
C9_Witness ==
    /\ op = "is_orthogonal_to"
    /\ x = V(<<"n", "*", "0", "-", "+">>)
    /\ y = V(<<"0", "0", "+", "0", "0">>)
    /\ separating_elements(x, y) = <<>>
    /\ res.val

\* The list of the signs of S in the order -1, 0, 1.
SignList(S) ==
    (IF -1 \in S THEN <<-1>> ELSE <<>>) \o (IF 0 \in S THEN <<0>> ELSE <<>>)
    \o (IF 1 \in S THEN <<1>> ELSE <<>>)

\* C10 as claimed: x[i] fails with IndexError for every i with
\* |i| >= length, i = -length included; for 0 <= i < length it is the list
\* of the admissible signs at i in the order -1, 0, 1; for -length < i < 0
\* it is x[length + i].
C10_IndexErrorFromMinusLength ==
    op = "getitem" =>
        LET n == length(x)
        IN /\ (arg >= n \/ arg <= -n) => ~res.ok /\ res.val = "IndexError"
           /\ (0 <= arg /\ arg < n) => res.ok /\ res.val = SignList(SignsAt(x, arg))
           /\ (-n < arg /\ arg < 0) => res.ok /\ res.val = SignList(SignsAt(x, n + arg))

\* C10 amended: x[i] fails with IndexError for every i >= length and every
\* i < -length, leaving x unchanged; for 0 <= i < length it is the list of
\* the admissible signs at i in the order -1, 0, 1; for -length <= i < 0 it
\* is x[length + i] (x[-length] is x[0]).
C10_GetItem ==
    /\ [](op = "getitem" =>
            LET n == length(x)
            IN /\ (arg >= n \/ arg < -n) => ~res.ok /\ res.val = "IndexError"
               /\ (0 <= arg /\ arg < n) =>
                      res.ok /\ res.val = SignList(SignsAt(x, arg))
               /\ (-n <= arg /\ arg < 0) =>
                      res.ok /\ res.val = SignList(SignsAt(x, n + arg)))
    /\ [][op' = "getitem" => x' = x]_vars

\* x[-length] on the doctest vector "0+*n" returns x[0] = [0].
C10_Witness ==
    /\ op = "getitem"
    /\ x = V(<<"0", "+", "*", "n">>)
    /\ arg = -4
    /\ res.ok
    /\ res.val = <<0>>

\* C11: to_sign_vector() on a vector that is not fully determined fails
\* with an error (it raises, it returns no value); on a fully determined
\* vector it returns the total sign vector with the same positive and
\* negative supports.
C11_ToSignVectorRaises ==
    op = "to_sign_vector" =>
        IF \A e \in Positions(x) : Cardinality(SignsAt(x, e)) = 1
        THEN /\ res.ok
             /\ res.val.type = "SignVector"
             /\ res.val.positive_support = x.positive_support
             /\ res.val.negative_support = x.negative_support
        ELSE ~res.ok

\* What to_sign_vector does: on a vector that is not fully determined it
\* returns an Exception object to the caller.
ToSignVectorEffect ==
    op = "to_sign_vector" =>
        /\ res.ok
        /\ IF \A e \in Positions(x) : Cardinality(SignsAt(x, e)) = 1
           THEN /\ res.val.type = "SignVector"
                /\ res.val.positive_support = x.positive_support
                /\ res.val.negative_support = x.negative_support
           ELSE res.val.type = "Exception"

\* The candidate set a sign argument of set_sign denotes.
CodeSigns(c) ==
    CASE c = "-" -> {-1}
      [] c = "0" -> {0}
      [] c = "+" -> {1}
      [] c = "n" -> {-1, 0}
      [] c = "p" -> {0, 1}
      [] c = "/" -> {-1, 1}
      [] c = "*" -> {-1, 0, 1}

Denoted(sign) == IF sign.kind = "str" THEN CodeSigns(sign.val) ELSE SeqElems(sign.val)

C13_DeleteComponents ==
    op = "delete_components" =>
        LET kept == SortedList(Positions(x) \ arg)
        IN /\ res.ok
           /\ length(res.val) = length(x) - Cardinality(arg)
           /\ \A k \in 1 .. Len(kept) : SignsAt(res.val, k - 1) = SignsAt(x, kept[k])
           /\ arg = {} => __eq__(res.val, x)

\* What delete_components does: with a position left the result is as
\* above; deleting every position raises ValueError.
DeleteComponentsEffect ==
    op = "delete_components" =>
        LET kept == SortedList(Positions(x) \ arg)
        IN IF arg = Positions(x)
           THEN ~res.ok /\ res.val = "ValueError"
           ELSE /\ res.ok
                /\ length(res.val) = length(x) - Cardinality(arg)
                /\ \A k \in 1 .. Len(kept) :
                       SignsAt(res.val, k - 1) = SignsAt(x, kept[k])
                /\ arg = {} => res.val = x
                /\ (x = V(<<"+", "*", "0", "p", "-">>) /\ arg = {1, 3}) =>
                       res.val = V(<<"+", "0", "-">>)

RECURSIVE ProductOfSizes(_, _)
ProductOfSizes(v, I) ==
    IF I = {} THEN 1
    ELSE LET e == CHOOSE e \in I : TRUE
         IN Cardinality(SignsAt(v, e)) * ProductOfSizes(v, I \ {e})

\* The vector of length n with the candidate set f[e] at position e.
VectorOf(n, f) ==
    PartialSignVector(FrozenBitsetCap({e \in 0 .. n - 1 : -1 \in f[e]}, n),
                      FrozenBitsetCap({e \in 0 .. n - 1 : 0 \in f[e]}, n),
                      FrozenBitsetCap({e \in 0 .. n - 1 : 1 \in f[e]}, n))

\* C15: unpack(indices) with an index list or one integer index over a
\* well-formed x returns a set of partial sign vectors: every element has
\* each listed position determined to one sign admissible in x there and
\* equals x elsewhere, and every combination of admissible signs over the
\* listed positions occurs exactly once, so the size is the product of
\* |x[i]| over the distinct i listed.
C15_UnpackIndices ==
    (op = "unpack_indices" /\ WellFormed(x)) =>
        LET I == IF arg.kind = "int" THEN {arg.val} ELSE SeqElems(arg.val)
            choices == {t \in [I -> {-1, 0, 1}] : \A e \in I : t[e] \in SignsAt(x, e)}
        IN /\ res.ok
           /\ res.val =
                  {VectorOf(length(x),
                            [e \in Positions(x) |->
                                 IF e \in I THEN {t[e]} ELSE SignsAt(x, e)]) :
                       t \in choices}
           /\ Cardinality(res.val) = ProductOfSizes(x, I)
           /\ \A v \in res.val :
                  /\ v.type = "PartialSignVector"
                  /\ \A e \in Positions(x) :
                         IF e \in I
                         THEN /\ Cardinality(SignsAt(v, e)) = 1
                              /\ SignsAt(v, e) \subseteq SignsAt(x, e)
                         ELSE SignsAt(v, e) = SignsAt(x, e)
           /\ (x = V(<<"p", "*", "0">>) /\ arg.kind = "int" /\ arg.val = 0) =>
                  res.val = {V(<<"+", "*", "0">>), V(<<"0", "*", "0">>)}

C15_Witness ==
    /\ op = "unpack_indices"
    /\ x = V(<<"p", "*", "0">>)
    /\ arg.kind = "list"
    /\ arg.val = <<1, 2>>
    /\ res.ok
    /\ res.val = {V(<<"p", "0", "0">>), V(<<"p", "+", "0">>), V(<<"p", "-", "0">>)}

\* C14: comparison with the scalar 0 treats 0 as the all-determined-zero
\* vector: for every well-formed x of length n and every op among ==, !=,
\* <=, <, >=, >, (x op 0) is (x op zero(n)); zero(3) == 0, zero(3) <= 0,
\* not zero(3) < 0, "00nn" >= 0, not "00--" <= 0.
C14_ScalarZero ==
    (op \in {"eq0", "ne0", "le0", "lt0", "ge0", "gt0"} /\ WellFormed(x)) =>
        LET z == zero(length(x)).val
            allZero == \A e \in Positions(x) : SignsAt(x, e) = {0}
            admitsZero == \A e \in Positions(x) : 0 \in SignsAt(x, e)
        IN /\ res.ok
           /\ op = "eq0" => res.val = __eq__(x, z) /\ res.val = allZero
           /\ op = "ne0" => res.val = __ne__(x, z) /\ res.val = ~allZero
           /\ op = "le0" => res.val = __le__(x, z) /\ res.val = allZero
           /\ op = "lt0" => res.val = __lt__(x, z) /\ res.val = FALSE
           /\ op = "ge0" => res.val = __ge__(x, z) /\ res.val = admitsZero
           /\ op = "gt0" => res.val = __gt__(x, z) /\ res.val = (admitsZero /\ ~allZero)
           /\ x = zero(3).val =>
                  /\ op \in {"eq0", "le0"} => res.val
                  /\ op = "lt0" => ~res.val
           /\ (x = V(<<"0", "0", "n", "n">>) /\ op = "ge0") => res.val
           /\ (x = V(<<"0", "0", "-", "-">>) /\ op = "le0") => ~res.val

\* "00nn" >= 0 holds although "00nn" == 0 does not.
C14_Witness ==
    /\ op = "ge0"
    /\ x = V(<<"0", "0", "n", "n">>)
    /\ y = Scalar0
    /\ res.val
    /\ ~__eq__(x, Scalar0)

\* C16: every vector reached from the constructors by any sequence of
\* compose, flip_signs, set_sign with a non-empty sign, delete_components,
\* negation and taking a member of unpack(indices) is well formed: every
\* position of [0, length) has at least one admissible sign.
C16_WellFormedInvariant == WellFormed(x)

\* One step of the chain keeps a well-formed self well formed for every
\* operation except flip_signs.
ChainEffect ==
    (WellFormed(x) /\ res.ok) =>
        /\ op = "compose" => WellFormed(res.val)
        /\ op \in {"set_sign_str", "set_sign_list", "delete_components", "neg"} =>
               WellFormed(res.val)
        /\ op \in {"unpack", "unpack_indices"} => \A m \in res.val : WellFormed(m)

\* The signs of a total vector, position by position.
SignsOf(t) == [e \in Positions(t) |-> CHOOSE s \in SignsAt(t, e) : TRUE]

\* Composition of total sign vectors: a where a is nonzero, b elsewhere.
TotalCompose(a, b) == [e \in DOMAIN a |-> IF a[e] # 0 THEN a[e] ELSE b[e]]

\* The total sign vectors packed in v, as functions from positions to signs.
PackedSigns(v) ==
    {f \in [Positions(v) -> {-1, 0, 1}] : \A e \in Positions(v) : f[e] \in SignsAt(v, e)}

\* The vectors of the length of v that carry one symbol at every position.
Uniform(v) == {V([i \in 1 .. length(v) |-> c]) : c \in Alphabet}

\* C17: compose is the pointwise lift of the composition of total sign
\* vectors: for well-formed x, y of equal length the total vectors packed in
\* x.compose(y) are exactly the a o b with a in unpack(x), b in unpack(y),
\* where (a o b)[i] = a[i] if a[i] # 0 and b[i] otherwise; compose is
\* idempotent (x.compose(x) == x) and associative (third operand: every
\* uniform vector, so that each position meets every triple of symbols).
C17_ComposeIsLift ==
    (op = "compose" /\ WellFormed(x) /\ WellFormed(y)) =>
        /\ res.ok
        /\ {SignsOf(t) : t \in unpack(res.val, NoneArg).val} =
               {TotalCompose(a, b) : a \in PackedSigns(x), b \in PackedSigns(y)}
        /\ __eq__(compose(x, x), x)
        /\ \A z \in Uniform(y) :
               __eq__(compose(res.val, z), compose(x, compose(y, z)))

\* "p*0" o "--0" = "//0": the pairs (0,-), (+,-) give -, + at position 0.
C17_Witness ==
    /\ op = "compose"
    /\ x = V(<<"p", "*", "0">>)
    /\ y = V(<<"-", "-", "0">>)
    /\ res.val = V(<<"/", "/", "0">>)
    /\ Cardinality(unpack(res.val, NoneArg).val) = 4
    /\ Cardinality(PackedSigns(x)) = 6

\* Orthogonality of two total sign vectors: disjoint supports, or a position
\* of equal nonzero signs together with a position of opposite nonzero signs.
TotalOrthogonal(a, b) ==
    \/ \A e \in DOMAIN a : a[e] = 0 \/ b[e] = 0
    \/ /\ \E e \in DOMAIN a : a[e] # 0 /\ a[e] = b[e]
       /\ \E e \in DOMAIN a : a[e] # 0 /\ b[e] # 0 /\ a[e] # b[e]

\* C18: for well-formed partial x, y of equal length, x.is_orthogonal_to(y)
\* is True iff every total a packed in x and every total b packed in y are
\* orthogonal (disjoint nonzero supports, or one position of equal and one of
\* opposite nonzero signs); the relation is symmetric in x and y.
C18_OrthogonalEveryPair ==
    (op = "is_orthogonal_to" /\ y.type = "PartialSignVector"
         /\ WellFormed(x) /\ WellFormed(y)) =>
        /\ res.ok
        /\ res.val = (\A a \in PackedSigns(x), b \in PackedSigns(y) : TotalOrthogonal(a, b))
        /\ res.val = is_orthogonal_to(y, x)

\* "n*0-+" and "**0++": every packed pair is orthogonal through the
\* determined positions 3 (opposite) and 4 (equal).
C18_Witness ==
    /\ op = "is_orthogonal_to"
    /\ x = V(<<"n", "*", "0", "-", "+">>)
    /\ y = V(<<"*", "*", "0", "+", "+">>)
    /\ res.val
    /\ Cardinality(PackedSigns(x)) = 6
    /\ Cardinality(PackedSigns(y)) = 9

\* C19: for well-formed x, y of equal length, x.issubset(y) holds iff
\* unpack(x) is a subset of unpack(y); then cardinality(x) <= cardinality(y);
\* a total y has nothing but itself below it; star(n) is above every vector
\* of length n.
C19_SubsetIsPackedInclusion ==
    (op = "issubset" /\ WellFormed(x) /\ WellFormed(y)) =>
        /\ res.ok
        /\ res.val = (unpack(x, NoneArg).val \subseteq unpack(y, NoneArg).val)
        /\ res.val = (PackedSigns(x) \subseteq PackedSigns(y))
        /\ res.val => cardinality(x) <= cardinality(y)
        /\ (res.val /\ is_sign_vector(y)) => x = y
        /\ issubset(x, star(length(x)).val)
        /\ __eq__(y, star(length(x)).val) => res.val

\* "-+00+" lies below "-/p0+": one packed vector among four.
C19_Witness ==
    /\ op = "issubset"
    /\ x = V(<<"-", "+", "0", "0", "+">>)
    /\ y = V(<<"-", "/", "p", "0", "+">>)
    /\ res.val
    /\ cardinality(x) = 1
    /\ cardinality(y) = 4
    /\ unpack(x, NoneArg).val \subseteq unpack(y, NoneArg).val

====
